---- MODULE Spec2Model ----
(***************************************************************************)
(* Sentiment analysis pipeline (scripts/ingest.py, preprocess.py,          *)
(* analyse.py, main.py).                                                   *)
(*                                                                         *)
(* Representation.  A Python str is a sequence of one-character strings,   *)
(* so that str.lower(), str.startswith(), concatenation, len() and the     *)
(* code-point order used by tuple sorting are computed and not assumed.    *)
(* A comment text is modelled by its nltk tokenization: a sequence of      *)
(* sentences, each a sequence of words.  A float score is an integer       *)
(* number of millionths (VADER rounds its compound score to 4 decimals,    *)
(* so base scores are multiples of 100 and the product with -0.74 is       *)
(* exact); a quotient is kept as the pair [num, den].                      *)
(***************************************************************************)
EXTENDS Integers, Sequences, FiniteSets, TLC

VARIABLES
    comments,        \* IngestReader._comments: the records of the input file
    pointer,         \* IngestReader._pointer
    sentences,       \* list[FilterSentences] held by main / by the caller
    mapping,         \* StemToLemMapping.mapping (dict: stem token -> lemma token)
    comment_scores,  \* list[CommentWithScore] of analysis_filter_sentences
    top_tokens,      \* list[TokenWithScore] returned by get_top_stem_tokens
    token_scores,    \* list[TokenWithScore] returned by get_token_score
    pc,              \* position of main()
    config,          \* Config: visual_comments_chunks, visual_tokens_percent
    outputs,         \* the directories and files created so far, in order
    exception,       \* the exception that ended main(), "none" while there is none
    analyzer,        \* DEFAULT_VADER_ANALYZER: the lexicon of the analyzer
    call,            \* a library call made by a caller: the function and its arguments
    ret              \* what that call returned, once it has returned

vars == <<comments, pointer, sentences, mapping, comment_scores, top_tokens,
          token_scores, pc, config, outputs, exception, analyzer, call, ret>>

(***************************************************************************)
(* Bounds of the model.                                                    *)
(***************************************************************************)
MaxLen == 6          \* longest token list handed to compact_tokens
MaxSents == 2        \* most sentences of a comment text
MaxWords == 3        \* most words of a comment text, over all its sentences
MaxCompact == 2      \* most compact_sentences calls on one FilterSentences
MaxCorpus == 2       \* most comments of a corpus handed to a library call
MaxBuilds == 2       \* most build_mapping calls on one StemToLemMapping
MaxToks == 2         \* most tokens handed to get_token_score
MaxRecords == 3      \* most records of the input file
MaxScores == 3       \* most scores handed to save_comments_trend
MaxSteps == 3        \* largest step count handed to save_comments_trend

(***************************************************************************)
(* Strings.                                                                *)
(***************************************************************************)
EmptyStr == <<>>

s_not == <<"n", "o", "t">>
s_no == <<"n", "o">>
s_No == <<"N", "o">>
s_nt == <<"n", "'", "t">>
s_out == <<"o", "u", "t">>
s_off == <<"o", "f", "f">>
s_nor == <<"n", "o", "r">>
s_the == <<"t", "h", "e">>
s_a == <<"a">>
s_is == <<"i", "s">>
s_be == <<"b", "e">>
s_was == <<"w", "a", "s">>
s_wa == <<"w", "a">>
s_to == <<"t", "o">>
s_comma == <<",">>
s_dot == <<".">>
s_good == <<"g", "o", "o", "d">>
s_Good == <<"G", "o", "o", "d">>
s_bad == <<"b", "a", "d">>
s_run == <<"r", "u", "n">>
s_runs == <<"r", "u", "n", "s">>
s_movie == <<"m", "o", "v", "i", "e">>
s_at == <<"a", "t">>
s_all == <<"a", "l", "l">>
s_here == <<"h", "e", "r", "e">>
s_space == <<" ">>
s_running == <<"r", "u", "n", "n", "i", "n", "g">>
w_Not == <<"N", "o", "t">>
s_negative == <<"(", "n", "e", "g", "a", "t", "i", "v", "e", ")">>

\* str.lower() on one character, for the characters the model uses
LowerChar(c) ==
    CASE c = "N" -> "n"
      [] c = "E" -> "e"
      [] c = "G" -> "g"
      [] c = "B" -> "b"
      [] c = "O" -> "o"
      [] OTHER -> c

\* str.lower()
str_lower(s) == [i \in 1..Len(s) |-> LowerChar(s[i])]

\* str.startswith(prefix)
startswith(s, prefix) ==
    /\ Len(s) >= Len(prefix)
    /\ SubSeq(s, 1, Len(prefix)) = prefix

(***************************************************************************)
(* preprocess.py: tokenization, stemming, lemmatization (nltk)             *)
(***************************************************************************)
\* nltk.sent_tokenize: a text is modelled by its sentences
sent_tokenize(text) == text

\* nltk.word_tokenize: a sentence is modelled by its words
word_tokenize(sentence) == sentence

\* PorterStemmer.stem: lower-cases, then strips suffixes
PorterStem(word) ==
    CASE word = s_was -> s_wa
      [] word = s_runs -> s_run
      [] word = s_running -> s_run
      [] OTHER -> str_lower(word)

\* LemmerWrapper.lemmatize: the dictionary form for the tag of the lone word
lemmatize(word) ==
    CASE word = s_was -> s_be
      [] OTHER -> word

\* FilterSentences.__init__
FilterSentences(text, timestamp) ==
    LET sents == sent_tokenize(text)
        words == [i \in 1..Len(sents) |-> word_tokenize(sents[i])]
    IN  [origin_text |-> text,
         timestamp |-> timestamp,
         sent_tokens |-> sents,
         word_tokens |-> words,
         stem_tokens |-> [i \in 1..Len(words) |->
                            [j \in 1..Len(words[i]) |-> PorterStem(words[i][j])]],
         lem_tokens |-> [i \in 1..Len(words) |->
                            [j \in 1..Len(words[i]) |->
                                str_lower(lemmatize(words[i][j]))]]]

(***************************************************************************)
(* preprocess.py: CONST_STOP_WORDS and StopWordCleanner                    *)
(***************************************************************************)
\* the members of stopwords.words("english") over the model's vocabulary
EnglishStopWords ==
    {s_the, s_a, s_is, s_be, s_was, s_not, s_no, s_out, s_off, s_nor, s_to,
     s_all, s_at, s_here}

CONST_STOP_WORDS ==
    ((EnglishStopWords \cup {s_comma, s_dot})
        \ {s_not, s_no, s_out, s_off, s_nor})
        \ {s_to, s_all}

\* a plausible bug: stop words are removed instead of blanked
clean_removing(sent) ==
    [sent EXCEPT
        !.stem_tokens = [i \in 1..Len(@) |->
            SelectSeq(@[i], LAMBDA j : j \notin CONST_STOP_WORDS)],
        !.lem_tokens = [i \in 1..Len(@) |->
            SelectSeq(@[i], LAMBDA j : j \notin CONST_STOP_WORDS)]]

\* a plausible bug: after blanking, list.remove("") drops a placeholder of
\* each sentence
clean_dropping(sent) ==
    LET blank(tokens) ==
            [j \in 1..Len(tokens) |->
                IF tokens[j] \notin CONST_STOP_WORDS THEN tokens[j] ELSE EmptyStr]
        drop(tokens) ==
            IF \E j \in 1..Len(tokens) : tokens[j] = EmptyStr
            THEN LET k == CHOOSE j \in 1..Len(tokens) :
                              /\ tokens[j] = EmptyStr
                              /\ \A h \in 1..(j - 1) : tokens[h] # EmptyStr
                 IN  SubSeq(tokens, 1, k - 1) \o SubSeq(tokens, k + 1, Len(tokens))
            ELSE tokens
    IN  [sent EXCEPT
            !.stem_tokens = [i \in 1..Len(@) |-> drop(blank(@[i]))],
            !.lem_tokens = [i \in 1..Len(@) |-> drop(blank(@[i]))]]

\* StopWordCleanner.clean
clean(sent) ==
    [sent EXCEPT
        !.stem_tokens = [i \in 1..Len(@) |->
            [j \in 1..Len(@[i]) |->
                IF @[i][j] \notin CONST_STOP_WORDS THEN @[i][j] ELSE EmptyStr]],
        !.lem_tokens = [i \in 1..Len(@) |->
            [j \in 1..Len(@[i]) |->
                IF @[i][j] \notin CONST_STOP_WORDS THEN @[i][j] ELSE EmptyStr]]]

(***************************************************************************)
(* preprocess.py: InverseCompacter                                         *)
(***************************************************************************)
WINDOW_SIZE == 3

\* the members of NEG_TOKENS that the model's vocabulary can produce
NEG_TOKENS == {s_not, s_no, s_nt, s_out, s_off, s_nor}

\* the literal "NEG_" of the f-string f"NEG_{token}"
NEG_PREFIX == <<"N", "E", "G", "_">>

\* a plausible bug: a negator adds the window to what is left of the last one
compact_step_stacking(prev, raw) ==
    LET token == str_lower(raw)
    IN  IF token \in NEG_TOKENS
        THEN [result |-> Append(prev.result, token),
              count |-> prev.count + WINDOW_SIZE,
              counts |-> Append(prev.counts, prev.count + WINDOW_SIZE)]
        ELSE IF prev.count > 0
        THEN [result |-> Append(prev.result, NEG_PREFIX \o token),
              count |-> prev.count - 1,
              counts |-> Append(prev.counts, prev.count - 1)]
        ELSE [result |-> Append(prev.result, token),
              count |-> prev.count,
              counts |-> Append(prev.counts, prev.count)]

\* a plausible bug: the lower-cased form is used for the comparison only
compact_step_keepcase(prev, raw) ==
    LET token == raw
    IN  IF str_lower(token) \in NEG_TOKENS
        THEN [result |-> Append(prev.result, token),
              count |-> WINDOW_SIZE,
              counts |-> Append(prev.counts, WINDOW_SIZE)]
        ELSE IF prev.count > 0
        THEN [result |-> Append(prev.result, NEG_PREFIX \o token),
              count |-> prev.count - 1,
              counts |-> Append(prev.counts, prev.count - 1)]
        ELSE [result |-> Append(prev.result, token),
              count |-> prev.count,
              counts |-> Append(prev.counts, prev.count)]

\* One iteration of the for loop of compact_tokens on the token `raw`, from
\* the locals `prev` (result, count) to the locals after it.  `counts` records
\* the value of `count` after each iteration.
compact_step(prev, raw) ==
    LET token == str_lower(raw)
    IN  IF token \in NEG_TOKENS
        THEN [result |-> Append(prev.result, token),
              count |-> WINDOW_SIZE,
              counts |-> Append(prev.counts, WINDOW_SIZE)]
        ELSE IF prev.count > 0
        THEN [result |-> Append(prev.result, NEG_PREFIX \o token),
              count |-> prev.count - 1,
              counts |-> Append(prev.counts, prev.count - 1)]
        ELSE [result |-> Append(prev.result, token),
              count |-> prev.count,
              counts |-> Append(prev.counts, prev.count)]

\* The whole for loop: `result = []; count = 0`, then one step per token.
RECURSIVE compact_loop(_)
compact_loop(tokens) ==
    IF tokens = <<>>
    THEN [result |-> <<>>, count |-> 0, counts |-> <<>>]
    ELSE compact_step(compact_loop(SubSeq(tokens, 1, Len(tokens) - 1)),
                      tokens[Len(tokens)])

compact_tokens(tokens) == compact_loop(tokens).result

\* a plausible bug: the lemma view is compacted along with the stem view
compact_sentences_both(sent) ==
    [sent EXCEPT
        !.stem_tokens = [i \in 1..Len(@) |-> compact_tokens(@[i])],
        !.lem_tokens = [i \in 1..Len(@) |-> compact_tokens(@[i])]]

\* InverseCompacter.compact_sentences
compact_sentences(sent) ==
    [sent EXCEPT
        !.stem_tokens = [i \in 1..Len(@) |-> compact_tokens(@[i])]]

(***************************************************************************)
(* preprocess.py: StemToLemMapping.  A dict is a function; the empty dict  *)
(* is the function of empty domain.                                        *)
(***************************************************************************)
EmptyDict == <<>>

\* the (stem, lemma) pairs of one sentence, in token order
RECURSIVE TokenPairs(_, _)
TokenPairs(stems, lems) ==
    IF stems = <<>>
    THEN <<>>
    ELSE Append(TokenPairs(SubSeq(stems, 1, Len(stems) - 1), lems),
                <<stems[Len(stems)], lems[Len(stems)]>>)

\* the (stem, lemma) pairs of the first n sentences of a FilterSentences
RECURSIVE SentencePairs(_, _)
SentencePairs(sentence, n) ==
    IF n = 0
    THEN <<>>
    ELSE SentencePairs(sentence, n - 1)
             \o TokenPairs(sentence.stem_tokens[n], sentence.lem_tokens[n])

\* the (stem, lemma) pairs of a list of FilterSentences, in the order the
\* three nested for loops of build_mapping visit them
RECURSIVE CorpusPairs(_)
CorpusPairs(corpus) ==
    IF corpus = <<>>
    THEN <<>>
    ELSE CorpusPairs(SubSeq(corpus, 1, Len(corpus) - 1))
             \o SentencePairs(corpus[Len(corpus)],
                              Len(corpus[Len(corpus)].stem_tokens))

\* a plausible bug: a later pair overwrites the entry of its stem
insert_pair_overwriting(dict, pair) ==
    LET key == pair[1]
        value == pair[2]
    IN  IF Len(key) = 0 \/ Len(value) = 0
        THEN dict
        ELSE [k \in DOMAIN dict \cup {key} |-> IF k = key THEN value ELSE dict[k]]

\* the body of the innermost loop of build_mapping
insert_pair(dict, pair) ==
    LET key == pair[1]
        value == pair[2]
    IN  IF Len(key) = 0 \/ Len(value) = 0
        THEN dict
        ELSE IF key \in DOMAIN dict
        THEN dict
        ELSE [k \in DOMAIN dict \cup {key} |-> IF k = key THEN value ELSE dict[k]]

RECURSIVE insert_pairs(_, _)
insert_pairs(dict, pairs) ==
    IF pairs = <<>>
    THEN dict
    ELSE insert_pair(insert_pairs(dict, SubSeq(pairs, 1, Len(pairs) - 1)),
                     pairs[Len(pairs)])

\* StemToLemMapping.build_mapping on the object whose dict is `dict`
build_mapping(dict, corpus) == insert_pairs(dict, CorpusPairs(corpus))

\* StemToLemMapping.check_stem_token
check_stem_token(dict, stem_token) == stem_token \in DOMAIN dict

\* dict.get(key, default)
dict_get(dict, key, default) == IF key \in DOMAIN dict THEN dict[key] ELSE default

\* a plausible bug: the entry of the stem without its tag is looked up
get_lem_token_untagged(dict, stem_token, negative_prefix) ==
    IF startswith(stem_token, NEG_PREFIX)
    THEN LET bare == SubSeq(stem_token, Len(NEG_PREFIX) + 1, Len(stem_token))
         IN  negative_prefix \o s_space \o dict_get(dict, bare, bare)
    ELSE dict_get(dict, stem_token, stem_token)

\* StemToLemMapping.get_lem_token
get_lem_token(dict, stem_token, negative_prefix) ==
    LET result == dict_get(dict, stem_token, stem_token)
    IN  IF startswith(stem_token, NEG_PREFIX)
        THEN negative_prefix \o s_space \o result
        ELSE result

(***************************************************************************)
(* analyse.py: the analyzer.  DEFAULT_VADER_ANALYZER is a lexicon-based    *)
(* analyzer: `analyzer` holds the valence of the words of its lexicon, and *)
(* the compound score of a text is the sum of the valences of its words,   *)
(* brought into [-1, 1].  Scores are in millionths.                        *)
(***************************************************************************)
Unit == 1000000

Valence(word) ==
    LET w == str_lower(word)
    IN  IF w \in DOMAIN analyzer THEN analyzer[w] ELSE 0

RECURSIVE SumValence(_)
SumValence(words) ==
    IF words = <<>>
    THEN 0
    ELSE SumValence(SubSeq(words, 1, Len(words) - 1)) + Valence(words[Len(words)])

Clamp(x) == IF x > Unit THEN Unit ELSE IF x < -Unit THEN -Unit ELSE x

\* polarity_scores(...)["compound"] of a text given by its words
compound(words) == Clamp(SumValence(words))

\* the words of a str: its maximal runs of non-blank characters
RECURSIVE split(_)
split(str) ==
    IF str = <<>>
    THEN <<>>
    ELSE LET front == split(SubSeq(str, 1, Len(str) - 1))
             c == str[Len(str)]
         IN  IF c = " "
             THEN front
             ELSE IF Len(str) > 1 /\ str[Len(str) - 1] # " "
             THEN [front EXCEPT ![Len(front)] = Append(@, c)]
             ELSE Append(front, <<c>>)

\* all the words of a text, sentence after sentence
RECURSIVE Flatten(_)
Flatten(seqs) ==
    IF seqs = <<>>
    THEN <<>>
    ELSE Flatten(SubSeq(seqs, 1, Len(seqs) - 1)) \o seqs[Len(seqs)]

RECURSIVE Sum(_)
Sum(xs) == IF xs = <<>> THEN 0 ELSE Sum(SubSeq(xs, 1, Len(xs) - 1)) + xs[Len(xs)]

(***************************************************************************)
(* analyse.py: CommentProcesser                                            *)
(***************************************************************************)
\* a plausible bug: the mean is taken without the test for zero sentences
process_comment_unguarded(comment, average_mode) ==
    IF ~average_mode
    THEN [num |-> compound(Flatten(comment.origin_text)), den |-> 1]
    ELSE LET scores == [i \in 1..Len(comment.sent_tokens) |->
                           compound(comment.sent_tokens[i])]
         IN  [num |-> Sum(scores), den |-> Len(scores)]

\* CommentProcesser.process_comment; the float num / den
process_comment(comment, average_mode) ==
    IF ~average_mode
    THEN [num |-> compound(Flatten(comment.origin_text)), den |-> 1]
    ELSE LET scores == [i \in 1..Len(comment.sent_tokens) |->
                           compound(comment.sent_tokens[i])]
         IN  IF Len(scores) = 0
             THEN [num |-> 0, den |-> 1]
             ELSE [num |-> Sum(scores), den |-> Len(scores)]

\* CommentWithScore.__init__
CommentWithScore(comment, average_mode) ==
    [comment |-> comment, score |-> process_comment(comment, average_mode)]

(***************************************************************************)
(* analyse.py: TokenProcesser                                              *)
(***************************************************************************)
\* TokenWithScore(token, count, score = 0.0)
TokenWithScore(token, count, score) ==
    [token |-> token, count |-> count, score |-> score]

\* ord(): the code point of a character the model uses
CodePoint(c) ==
    CASE c = " " -> 32 [] c = "'" -> 39 [] c = "(" -> 40 [] c = ")" -> 41
      [] c = "," -> 44 [] c = "." -> 46 [] c = "1" -> 49
      [] c = "B" -> 66 [] c = "E" -> 69 [] c = "G" -> 71 [] c = "N" -> 78
      [] c = "O" -> 79 [] c = "_" -> 95
      [] c = "a" -> 97 [] c = "b" -> 98 [] c = "d" -> 100 [] c = "e" -> 101
      [] c = "f" -> 102 [] c = "g" -> 103 [] c = "h" -> 104 [] c = "i" -> 105
      [] c = "l" -> 108 [] c = "m" -> 109 [] c = "n" -> 110 [] c = "o" -> 111
      [] c = "r" -> 114 [] c = "s" -> 115 [] c = "t" -> 116 [] c = "u" -> 117
      [] c = "v" -> 118 [] c = "w" -> 119

\* str < str: at the first position where they differ the code point decides,
\* and a proper prefix is the smaller
str_less(a, b) ==
    \E i \in 1..(Len(b)) :
        /\ \A k \in 1..(i - 1) : k <= Len(a) /\ a[k] = b[k]
        /\ \/ i = Len(a) + 1
           \/ i <= Len(a) /\ CodePoint(a[i]) < CodePoint(b[i])

\* (count, token) < (count, token) on tuples
tuple_less(x, y) ==
    \/ x[1] < y[1]
    \/ x[1] = y[1] /\ str_less(x[2], y[2])

\* all stem tokens of a list of FilterSentences, in loop order
RECURSIVE CorpusStems(_)
CorpusStems(corpus) ==
    IF corpus = <<>>
    THEN <<>>
    ELSE CorpusStems(SubSeq(corpus, 1, Len(corpus) - 1))
             \o Flatten(corpus[Len(corpus)].stem_tokens)

\* the dict `mapping` of get_top_stem_tokens after the counting loops
count_tokens(stems) ==
    LET keys == {stems[i] : i \in {j \in 1..Len(stems) : Len(stems[j]) # 0}}
    IN  [key \in keys |-> Cardinality({i \in 1..Len(stems) : stems[i] = key})]

\* a plausible bug: sort() without reverse=True
RECURSIVE sort_ascending(_)
sort_ascending(tuples) ==
    IF tuples = {}
    THEN <<>>
    ELSE LET least == CHOOSE x \in tuples :
                          \A y \in tuples \ {x} : tuple_less(x, y)
         IN  <<least>> \o sort_ascending(tuples \ {least})

\* token_list.sort(reverse=True) on the (count, token) tuples, all distinct
RECURSIVE sort_reverse(_)
sort_reverse(tuples) ==
    IF tuples = {}
    THEN <<>>
    ELSE LET greatest == CHOOSE x \in tuples :
                             \A y \in tuples \ {x} : tuple_less(y, x)
         IN  <<greatest>> \o sort_reverse(tuples \ {greatest})

\* a plausible bug: the cut-off is rounded up
int_times_ceiling(n, percent) ==
    (n * percent.num + percent.den - 1) \div percent.den

\* int(n * percent) for the float percent = num / den >= 0
int_times(n, percent) == (n * percent.num) \div percent.den

\* TokenProcesser.get_top_stem_tokens
get_top_stem_tokens(corpus, percent) ==
    LET counts == count_tokens(CorpusStems(corpus))
        token_list == sort_reverse({<<counts[key], key>> : key \in DOMAIN counts})
        cut == int_times(Len(token_list), percent)
        kept == SubSeq(token_list, 1, IF cut < Len(token_list)
                                      THEN cut ELSE Len(token_list))
    IN  [i \in 1..Len(kept) |-> TokenWithScore(kept[i][2], kept[i][1], 0)]

\* a plausible bug: the tag does not change the score
times_nothing(score) == score

\* lem_score *= -0.74, exact on the multiples of 100 the analyzer returns
times_inverse(score) == (score * (-74)) \div 100

\* a plausible bug: sentiment-neutral tokens are kept
score_token_keeping(result, i, dict) ==
    IF ~check_stem_token(dict, i.token)
    THEN result
    ELSE LET lem_token == get_lem_token(dict, i.token, EmptyStr)
             base == compound(split(lem_token))
             lem_score == IF startswith(i.token, NEG_PREFIX)
                          THEN times_inverse(base)
                          ELSE base
         IN  Append(result, TokenWithScore(i.token, i.count, lem_score))

\* the body of the loop of get_token_score on the token i
score_token(result, i, dict) ==
    IF ~check_stem_token(dict, i.token)
    THEN result
    ELSE LET lem_token == get_lem_token(dict, i.token, EmptyStr)
             base == compound(split(lem_token))
             lem_score == IF startswith(i.token, NEG_PREFIX)
                          THEN times_inverse(base)
                          ELSE base
         IN  IF lem_score # 0
             THEN Append(result, TokenWithScore(i.token, i.count, lem_score))
             ELSE result

\* TokenProcesser.get_token_score
RECURSIVE get_token_score(_, _)
get_token_score(tokens, dict) ==
    IF tokens = <<>>
    THEN <<>>
    ELSE score_token(get_token_score(SubSeq(tokens, 1, Len(tokens) - 1), dict),
                     tokens[Len(tokens)], dict)

(***************************************************************************)
(* Idle values of the variables a specification does not use.              *)
(***************************************************************************)
NoCall == [op |-> "none"]
Pending == [done |-> FALSE]

IdlePipeline ==
    /\ comments = <<>>
    /\ pointer = 0
    /\ sentences = <<>>
    /\ mapping = <<>>
    /\ comment_scores = <<>>
    /\ top_tokens = <<>>
    /\ token_scores = <<>>
    /\ pc = "idle"
    /\ outputs = <<>>
    /\ exception = "none"
    /\ config = [visual_comments_chunks |-> 20,
                 visual_tokens_percent |-> [num |-> 1, den |-> 1]]
    /\ analyzer = <<>>

(***************************************************************************)
(* SpecTokens: a caller of InverseCompacter.compact_tokens.                *)
(***************************************************************************)
ExampleTokens == <<s_not, s_good, s_movie, s_at, s_all, s_here>>

TokenVocab == {s_not, s_No, s_good, s_Good, EmptyStr}

TokenLists ==
    UNION {[1..n -> TokenVocab] : n \in 0..MaxLen} \cup {ExampleTokens}

InitTokens ==
    /\ IdlePipeline
    /\ \E tokens \in TokenLists :
           call = [op |-> "compact_tokens", tokens |-> tokens]
    /\ ret = Pending

CallCompactTokens ==
    /\ call.op = "compact_tokens"
    /\ ~ret.done
    /\ ret' = [done |-> TRUE,
               counts |-> compact_loop(call.tokens).counts,
               result |-> compact_tokens(call.tokens)]
    /\ UNCHANGED <<comments, pointer, sentences, mapping, comment_scores,
                   top_tokens, token_scores, pc, config, outputs, exception, analyzer, call>>

NextTokens == CallCompactTokens

SpecTokens == InitTokens /\ [][NextTokens]_vars

\* a token the comparison `token in NEG_TOKENS` of compact_tokens accepts
IsNegator(t) == str_lower(t) \in NEG_TOKENS

\* output token `out` is input token `inp` behind the negation prefix
Marked(inp, out) ==
    /\ Len(out) = Len(inp) + Len(NEG_PREFIX)
    /\ startswith(out, NEG_PREFIX)

\* position i has a negator at most WINDOW_SIZE positions before it, with no
\* other negator in between
NearNegator(tokens, i) ==
    \E k \in 1..(i - 1) :
        /\ IsNegator(tokens[k])
        /\ \A j \in (k + 1)..(i - 1) : ~IsNegator(tokens[j])
        /\ i - k <= 3

\* C2: the window counter is 0 before the first token, is exactly 3 after a
\* negator and stays in 0..3; a token receives the negation prefix iff it is
\* no negator and the nearest negator before it is at most 3 positions
\* earlier; [not, good, movie, at, all, here] marks good, movie, at only.
NegationWindow ==
    (call.op = "compact_tokens" /\ ret.done) =>
        LET tokens == call.tokens
            out == ret.result
        IN  /\ Len(out) = Len(tokens)
            /\ Len(ret.counts) = Len(tokens)
            /\ \A i \in 1..Len(tokens) :
                   /\ ret.counts[i] \in 0..3
                   /\ IsNegator(tokens[i]) => ret.counts[i] = 3
                   /\ (i = 1 /\ ~IsNegator(tokens[i])) => ret.counts[i] = 0
                   /\ Marked(tokens[i], out[i]) <=>
                          (~IsNegator(tokens[i]) /\ NearNegator(tokens, i))
            /\ tokens = ExampleTokens =>
                   out = <<s_not, NEG_PREFIX \o s_good, NEG_PREFIX \o s_movie,
                           NEG_PREFIX \o s_at, s_all, s_here>>

\* C2 witness: the example list has been compacted, and so has a list in
\* which a second negator re-arms a window that was not yet used up
NegationWindowReached ==
    /\ call.op = "compact_tokens"
    /\ ret.done
    /\ \/ call.tokens = ExampleTokens
       \/ /\ Len(call.tokens) = 6
          /\ IsNegator(call.tokens[1])
          /\ IsNegator(call.tokens[3])
          /\ Marked(call.tokens[6], ret.result[6])

\* C3 as stated: negators, and other tokens met while the counter is 0, are
\* emitted exactly as they appeared in the input.
EmittedAsGiven ==
    (call.op = "compact_tokens" /\ ret.done) =>
        \A i \in 1..Len(call.tokens) :
            (IsNegator(call.tokens[i]) \/ ~Marked(call.tokens[i], ret.result[i]))
                => ret.result[i] = call.tokens[i]

\* C3 amended: such tokens are emitted in their lower-cased form, which is
\* the input token itself exactly when the input token is already lower-case.
EmittedLowerCased ==
    (call.op = "compact_tokens" /\ ret.done) =>
        \A i \in 1..Len(call.tokens) :
            (IsNegator(call.tokens[i]) \/ ~Marked(call.tokens[i], ret.result[i]))
                => /\ ret.result[i] = str_lower(call.tokens[i])
                   /\ (ret.result[i] = call.tokens[i]) <=>
                          (call.tokens[i] = str_lower(call.tokens[i]))

\* C3 witness: a capitalised negator and a capitalised token outside every
\* window have been emitted
EmittedLowerCasedReached ==
    /\ call.op = "compact_tokens"
    /\ ret.done
    /\ Len(call.tokens) >= 2
    /\ call.tokens[1] = s_Good
    /\ call.tokens[2] = s_No
    /\ ret.result[1] = s_good
    /\ ret.result[2] = s_no

(***************************************************************************)
(* SpecRecord: one FilterSentences, cleaned and compacted by its owner in  *)
(* any order and any number of times.                                      *)
(***************************************************************************)
RecordWords == {w_Not, s_the, s_good, s_was}

\* the sentences of at most n words
SentencesUpTo(n) == UNION {[1..k -> RecordWords] : k \in 0..n}

\* the texts of exactly n sentences and at most w words
RECURSIVE TextsOf(_, _)
TextsOf(n, w) ==
    IF n = 0
    THEN {<<>>}
    ELSE UNION {{Append(t, sentence) : t \in TextsOf(n - 1, w - Len(sentence))} :
                   sentence \in SentencesUpTo(w)}

RecordTexts == UNION {TextsOf(n, MaxWords) : n \in 0..MaxSents}

Timestamp == <<"t", "1">>

InitRecord ==
    /\ comments = <<>>
    /\ pointer = 0
    /\ \E text \in RecordTexts : sentences = <<FilterSentences(text, Timestamp)>>
    /\ mapping = <<>>
    /\ comment_scores = <<>>
    /\ top_tokens = <<>>
    /\ token_scores = <<>>
    /\ pc = "idle"
    /\ outputs = <<>>
    /\ exception = "none"
    /\ config = [visual_comments_chunks |-> 20,
                 visual_tokens_percent |-> [num |-> 1, den |-> 1]]
    /\ analyzer = <<>>
    /\ call = [op |-> "record", cleaned |-> FALSE, compactions |-> 0]
    /\ ret = Pending

\* StopWordCleanner.clean(sent) on the record
CleanRecord ==
    /\ call.op = "record"
    /\ sentences' = [sentences EXCEPT ![1] = clean(@)]
    /\ call' = [call EXCEPT !.cleaned = TRUE]
    /\ UNCHANGED <<comments, pointer, mapping, comment_scores, top_tokens,
                   token_scores, pc, config, outputs, exception, analyzer, ret>>

\* InverseCompacter.compact_sentences(sent) on the record
CompactRecord ==
    /\ call.op = "record"
    /\ call.compactions < MaxCompact
    /\ sentences' = [sentences EXCEPT ![1] = compact_sentences(@)]
    /\ call' = [call EXCEPT !.compactions = @ + 1]
    /\ UNCHANGED <<comments, pointer, mapping, comment_scores, top_tokens,
                   token_scores, pc, config, outputs, exception, analyzer, ret>>

NextRecord == CleanRecord \/ CompactRecord

SpecRecord == InitRecord /\ [][NextRecord]_vars

\* the number of tokens of each sentence of a token view
Shape(view) == [i \in 1..Len(view) |-> Len(view[i])]

\* C1: after any sequence of clean and compact_sentences calls, word_tokens,
\* stem_tokens and lem_tokens have the same number of sentences and, sentence
\* by sentence, the number of tokens the initial tokenization produced.
ShapeAligned ==
    call.op = "record" =>
        LET r == sentences[1]
            sents == sent_tokenize(r.origin_text)
            initial == [i \in 1..Len(sents) |-> Len(word_tokenize(sents[i]))]
        IN  /\ Shape(r.word_tokens) = initial
            /\ Shape(r.stem_tokens) = initial
            /\ Shape(r.lem_tokens) = initial

\* C1 witness: a record of two sentences has been cleaned and then compacted,
\* a stop word was blanked in both views and its stem slot lies in a window
ShapeAlignedReached ==
    /\ call.op = "record"
    /\ call.cleaned
    /\ call.compactions >= 1
    /\ Len(sentences[1].word_tokens) = 2
    /\ \E i \in 1..2 :
           \E j \in 1..Len(sentences[1].word_tokens[i]) :
               /\ sentences[1].word_tokens[i][j] = s_the
               /\ sentences[1].lem_tokens[i][j] = EmptyStr
               /\ sentences[1].stem_tokens[i][j] = NEG_PREFIX

(***************************************************************************)
(* SpecLibrary: one caller of the library (StemToLemMapping,               *)
(* CommentProcesser, TokenProcesser) with its arguments.                   *)
(***************************************************************************)
\* clean, then compact_sentences, as process_filter_sentences applies them
Processed(text) == compact_sentences(clean(FilterSentences(text, Timestamp)))

TextA == <<<<s_runs, s_the>>, <<w_Not, s_running>>>>
TextB == <<<<s_running, s_was, s_runs>>>>
TextC == <<<<w_Not, s_the, s_good>>>>
TextTen ==
    <<<<s_not, s_good, s_movie, s_bad, s_run>>,
      <<s_no, s_out, s_off, s_nor, s_to, s_good, s_not, s_good>>>>

LibTexts == {TextA, TextB, TextC}

EmptyComment == FilterSentences(<<>>, Timestamp)
BlankComment == Processed(<<<<s_the>>>>)
TenTokenCorpus == <<FilterSentences(TextTen, Timestamp)>>

Corpora ==
    UNION {{[i \in 1..n |-> Processed(f[i])] : f \in [1..n -> LibTexts]} :
              n \in 0..MaxCorpus}
        \cup {<<EmptyComment>>, <<BlankComment>>}

LexNeutral == EmptyDict
LexVader == (s_good :> 440400) @@ (s_runs :> -250000)
LexStrong == (s_good :> -Unit) @@ (s_running :> Unit) @@ (s_not :> -Unit)
Lexicons == {LexNeutral, LexVader, LexStrong}

Percents ==
    {[num |-> 1, den |-> 5], [num |-> 1, den |-> 2], [num |-> 2, den |-> 3],
     [num |-> 1, den |-> 1]}

LookupStems ==
    {s_run, NEG_PREFIX \o s_run, s_good, NEG_PREFIX \o s_good, NEG_PREFIX, s_wa}

ScoredTokens ==
    {TokenWithScore(t, c, 0) : t \in LookupStems \ {s_wa}, c \in {1, 3}}

ScoredTokenLists == UNION {[1..n -> ScoredTokens] : n \in 0..MaxToks}

Scripts == UNION {[1..n -> Corpora] : n \in 0..MaxBuilds}

IdleMain ==
    /\ comments = <<>>
    /\ pointer = 0
    /\ sentences = <<>>
    /\ comment_scores = <<>>
    /\ top_tokens = <<>>
    /\ token_scores = <<>>
    /\ pc = "idle"
    /\ outputs = <<>>
    /\ exception = "none"
    /\ config = [visual_comments_chunks |-> 20,
                 visual_tokens_percent |-> [num |-> 1, den |-> 1]]

\* StemToLemMapping() and the corpora the caller will build it from
InitBuild ==
    /\ IdleMain
    /\ mapping = EmptyDict
    /\ analyzer = LexVader
    /\ \E script \in Scripts : call = [op |-> "build_mapping", corpora |-> script]
    /\ ret = [done |-> FALSE, built |-> 0]

InitLookup ==
    /\ IdleMain
    /\ \E corpus \in Corpora : mapping = build_mapping(EmptyDict, corpus)
    /\ analyzer = LexVader
    /\ \E stem \in LookupStems, prefix \in {EmptyStr, s_not, s_negative} :
           call = [op |-> "get_lem_token", stem_token |-> stem,
                   negative_prefix |-> prefix]
    /\ ret = Pending

InitTop ==
    /\ IdleMain
    /\ mapping = EmptyDict
    /\ analyzer = LexVader
    /\ \E corpus \in Corpora \cup {TenTokenCorpus}, percent \in Percents :
           call = [op |-> "get_top_stem_tokens", comments |-> corpus,
                   percent |-> percent]
    /\ ret = Pending

InitScore ==
    /\ IdleMain
    /\ \E corpus \in Corpora : mapping = build_mapping(EmptyDict, corpus)
    /\ analyzer \in Lexicons
    /\ \E tokens \in ScoredTokenLists :
           call = [op |-> "get_token_score", tokens |-> tokens]
    /\ ret = Pending

InitProcess ==
    /\ IdleMain
    /\ mapping = EmptyDict
    /\ analyzer \in Lexicons
    /\ \E text \in LibTexts \cup {<<>>, TextTen}, mode \in BOOLEAN :
           call = [op |-> "process_comment",
                   comment |-> FilterSentences(text, Timestamp),
                   average_mode |-> mode]
    /\ ret = Pending

InitLibrary == InitBuild \/ InitLookup \/ InitTop \/ InitScore \/ InitProcess

\* mapping.build_mapping(corpus) with the caller's next corpus
CallBuildMapping ==
    /\ call.op = "build_mapping"
    /\ ret.built < Len(call.corpora)
    /\ mapping' = build_mapping(mapping, call.corpora[ret.built + 1])
    /\ ret' = [done |-> ret.built + 1 = Len(call.corpora), built |-> ret.built + 1]
    /\ UNCHANGED <<comments, pointer, sentences, comment_scores, top_tokens,
                   token_scores, pc, config, outputs, exception, analyzer, call>>

CallGetLemToken ==
    /\ call.op = "get_lem_token"
    /\ ~ret.done
    /\ ret' = [done |-> TRUE,
               result |-> get_lem_token(mapping, call.stem_token,
                                        call.negative_prefix)]
    /\ UNCHANGED <<comments, pointer, sentences, mapping, comment_scores,
                   top_tokens, token_scores, pc, config, outputs, exception, analyzer, call>>

CallGetTopStemTokens ==
    /\ call.op = "get_top_stem_tokens"
    /\ ~ret.done
    /\ ret' = [done |-> TRUE,
               result |-> get_top_stem_tokens(call.comments, call.percent)]
    /\ UNCHANGED <<comments, pointer, sentences, mapping, comment_scores,
                   top_tokens, token_scores, pc, config, outputs, exception, analyzer, call>>

CallGetTokenScore ==
    /\ call.op = "get_token_score"
    /\ ~ret.done
    /\ ret' = [done |-> TRUE, result |-> get_token_score(call.tokens, mapping)]
    /\ UNCHANGED <<comments, pointer, sentences, mapping, comment_scores,
                   top_tokens, token_scores, pc, config, outputs, exception, analyzer, call>>

CallProcessComment ==
    /\ call.op = "process_comment"
    /\ ~ret.done
    /\ ret' = [done |-> TRUE,
               result |-> process_comment(call.comment, call.average_mode)]
    /\ UNCHANGED <<comments, pointer, sentences, mapping, comment_scores,
                   top_tokens, token_scores, pc, config, outputs, exception, analyzer, call>>

NextLibrary ==
    \/ CallBuildMapping
    \/ CallGetLemToken
    \/ CallGetTopStemTokens
    \/ CallGetTokenScore
    \/ CallProcessComment

SpecLibrary == InitLibrary /\ [][NextLibrary]_vars

\* the (stem, lemma) pairs handed to build_mapping by the first k calls
RECURSIVE ScriptPairs(_, _)
ScriptPairs(script, k) ==
    IF k = 0 THEN <<>> ELSE ScriptPairs(script, k - 1) \o CorpusPairs(script[k])

ValidPair(pair) == Len(pair[1]) # 0 /\ Len(pair[2]) # 0

FirstOccurrences ==
    call.op = "build_mapping" =>
        LET H == ScriptPairs(call.corpora, ret.built)
        IN  /\ DOMAIN mapping =
                   {H[i][1] : i \in {j \in 1..Len(H) : ValidPair(H[j])}}
            /\ \A key \in DOMAIN mapping :
                   /\ key # EmptyStr
                   /\ mapping[key] # EmptyStr
                   /\ \E i \in 1..Len(H) :
                          /\ ValidPair(H[i])
                          /\ H[i][1] = key
                          /\ mapping[key] = H[i][2]
                          /\ \A j \in 1..(i - 1) :
                                 ~(ValidPair(H[j]) /\ H[j][1] = key)
            /\ (ret.built >= 1 /\ call.corpora[1] = <<Processed(TextB)>>)
                   => mapping[s_run] = s_running

EntriesKept ==
    \A key \in DOMAIN mapping : key \in DOMAIN mapping' /\ mapping'[key] = mapping[key]

\* C4: after any number of build_mapping calls on one object every key maps
\* to the lemma at the first aligned position, in corpus/sentence/token order
\* over all the calls, where that stem occurs with stem and lemma non-empty;
\* no key or value is the empty placeholder; an entry, once inserted, never
\* changes; (run, running), (run, runs) yield run -> running.
FirstWriteWins == []FirstOccurrences /\ [][EntriesKept]_vars

\* C4 witness: a second call met a stem of the first call with another lemma
FirstWriteWinsReached ==
    /\ call.op = "build_mapping"
    /\ ret.built = 2
    /\ call.corpora[1] = <<Processed(TextB)>>
    /\ call.corpora[2] = <<Processed(TextA)>>
    /\ mapping[s_run] = s_running
    /\ NEG_PREFIX \o s_run \in DOMAIN mapping

\* the stem token without its negation prefix
Untagged(stem_token) == SubSeq(stem_token, Len(NEG_PREFIX) + 1, Len(stem_token))

\* C5 as stated: for a stem carrying the negation prefix, get_lem_token
\* returns the label joined (with or without a blank) to the entry of the
\* un-prefixed stem, or to the stem itself when the un-prefixed stem is unmapped.
TaggedLookupByBareStem ==
    (call.op = "get_lem_token" /\ ret.done
        /\ startswith(call.stem_token, NEG_PREFIX)) =>
        LET bare == Untagged(call.stem_token)
            entries == IF bare \in DOMAIN mapping
                       THEN {mapping[bare]}
                       ELSE {bare, call.stem_token}
        IN  \E entry \in entries :
                \/ ret.result = call.negative_prefix \o entry
                \/ ret.result = call.negative_prefix \o s_space \o entry

\* C5 amended: for a stem carrying the negation prefix, get_lem_token returns
\* the label, one blank, and the entry of the stem token as given (prefix
\* included), or the tagged stem token itself when that token is unmapped.
TaggedLookupByTaggedStem ==
    (call.op = "get_lem_token" /\ ret.done
        /\ startswith(call.stem_token, NEG_PREFIX)) =>
        ret.result = call.negative_prefix \o s_space
                        \o (IF call.stem_token \in DOMAIN mapping
                            THEN mapping[call.stem_token]
                            ELSE call.stem_token)

\* C5 witness: a tagged stem was looked up whose entry differs from the entry
\* of its un-prefixed stem
TaggedLookupReached ==
    /\ call.op = "get_lem_token"
    /\ ret.done
    /\ call.stem_token = NEG_PREFIX \o s_run
    /\ call.stem_token \in DOMAIN mapping
    /\ s_run \in DOMAIN mapping
    /\ mapping[s_run] # mapping[call.stem_token]

\* (count, token) of x sorts before that of y in descending order
SortsBefore(x, y) ==
    \/ x.count > y.count
    \/ x.count = y.count /\ str_less(y.token, x.token)

BaseScore(token) == compound(split(get_lem_token(mapping, token, EmptyStr)))

\* that score, times -0.74 for a negation-tagged token
FinalScore(token) ==
    IF startswith(token, NEG_PREFIX)
    THEN (BaseScore(token) * (-74)) \div 100
    ELSE BaseScore(token)

\* the positions of the input of get_token_score that are to be retained
Retained(tokens) ==
    {i \in 1..Len(tokens) :
        tokens[i].token \in DOMAIN mapping /\ FinalScore(tokens[i].token) # 0}

\* the k-th retained position
RetainedAt(tokens, k) ==
    CHOOSE i \in Retained(tokens) :
        Cardinality({j \in Retained(tokens) : j <= i}) = k

\* C7: get_token_score returns, in the input's order and with token text and
\* count unchanged, exactly the tokens that are keys of the mapping and whose
\* final score is non-zero; the others are dropped.
ScoreFilter ==
    (call.op = "get_token_score" /\ ret.done) =>
        /\ Len(ret.result) = Cardinality(Retained(call.tokens))
        /\ \A k \in 1..Len(ret.result) :
               /\ ret.result[k].token = call.tokens[RetainedAt(call.tokens, k)].token
               /\ ret.result[k].count = call.tokens[RetainedAt(call.tokens, k)].count
               /\ ret.result[k].score # 0

\* C7 witness: of two tokens, a mapped neutral one was dropped and the other
\* retained
ScoreFilterReached ==
    /\ call.op = "get_token_score"
    /\ ret.done
    /\ Len(call.tokens) = 2
    /\ call.tokens[1].token \in DOMAIN mapping
    /\ FinalScore(call.tokens[1].token) = 0
    /\ Len(ret.result) = 1
    /\ ret.result[1].token = call.tokens[2].token

\* C8: with an analyzer whose compound score is in [-1, 1], every score of
\* process_comment (both modes) and of get_token_score lies in [-1, 1]; a
\* negation-tagged token's score is the analyzer's score of its lemma text
\* times -0.74, an untagged token's score is the analyzer's score.
ScoreBounds ==
    /\ (call.op = "process_comment" /\ ret.done) =>
           /\ ret.result.den > 0
           /\ ret.result.num <= ret.result.den * Unit
           /\ ret.result.num >= -(ret.result.den * Unit)
    /\ (call.op = "get_token_score" /\ ret.done) =>
           \A k \in 1..Len(ret.result) :
               /\ ret.result[k].score \in (-Unit)..Unit
               /\ IF startswith(ret.result[k].token, NEG_PREFIX)
                  THEN ret.result[k].score * 100
                           = BaseScore(ret.result[k].token) * (-74)
                  ELSE ret.result[k].score = BaseScore(ret.result[k].token)

\* C8 witness: a negation-tagged token has been given an inverted score
ScoreBoundsReached ==
    /\ call.op = "get_token_score"
    /\ ret.done
    /\ \E k \in 1..Len(ret.result) :
           /\ ret.result[k].token = NEG_PREFIX \o s_good
           /\ BaseScore(ret.result[k].token) = 440400
           /\ ret.result[k].score = -325896

\* no stem token of the corpus is non-empty
NoTokens(corpus) ==
    \A i \in 1..Len(CorpusStems(corpus)) : CorpusStems(corpus)[i] = EmptyStr

\* C9: process_comment in sentence-averaged mode returns 0.0 for zero
\* sentences and otherwise the arithmetic mean of the sentence scores, never
\* dividing by zero; build_mapping, get_top_stem_tokens and get_token_score
\* return an empty mapping / empty list for zero comments or zero tokens.
EmptyDegrades ==
    /\ (call.op = "process_comment" /\ ret.done /\ call.average_mode) =>
           LET sents == call.comment.sent_tokens
           IN  /\ ret.result.den # 0
               /\ Len(sents) = 0 => ret.result = [num |-> 0, den |-> 1]
               /\ Len(sents) > 0 =>
                      /\ ret.result.den = Len(sents)
                      /\ ret.result.num =
                             Sum([i \in 1..Len(sents) |-> compound(sents[i])])
    /\ (call.op = "build_mapping"
            /\ \A k \in 1..ret.built : NoTokens(call.corpora[k])) =>
           mapping = EmptyDict
    /\ (call.op = "get_top_stem_tokens" /\ ret.done /\ NoTokens(call.comments)) =>
           ret.result = <<>>
    /\ (call.op = "get_token_score" /\ ret.done
            /\ (call.tokens = <<>> \/ mapping = EmptyDict)) =>
           ret.result = <<>>

\* C9 witness: a comment of zero sentences has been scored in averaged mode
EmptyDegradesReached ==
    /\ call.op = "process_comment"
    /\ ret.done
    /\ call.average_mode
    /\ call.comment.sent_tokens = <<>>
    /\ ret.result = [num |-> 0, den |-> 1]

(***************************************************************************)
(* visualise.py.  Floats that are quotients are pairs [num, den], den > 0. *)
(***************************************************************************)
rat(x) == [num |-> x, den |-> 1]

rat_less(a, b) == a.num * b.den < b.num * a.den

\* min(data) and max(data)
rat_min(data) ==
    data[CHOOSE i \in 1..Len(data) :
             \A j \in 1..Len(data) : ~rat_less(data[j], data[i])]

rat_max(data) ==
    data[CHOOSE i \in 1..Len(data) :
             \A j \in 1..Len(data) : ~rat_less(data[i], data[j])]

\* min(int((x - min_v) / bin_width), steps - 1), bin_width = (max_v - min_v) / steps
bin_index(x, min_v, max_v, steps) ==
    LET raw == ((x.num * min_v.den - min_v.num * x.den) * max_v.den * steps)
                   \div (x.den * (max_v.num * min_v.den - min_v.num * max_v.den))
    IN  IF raw < steps - 1 THEN raw ELSE steps - 1

\* a plausible bug: a step count below two is raised to two instead of refused
save_comments_trend_clamping(data, steps) ==
    IF Len(data) = 0
    THEN [raised |-> "Exception"]
    ELSE LET min_v == rat_min(data)
             max_v == rat_max(data)
             clamped == IF steps < 2 THEN 2 ELSE steps
         IN  IF ~rat_less(min_v, max_v)
             THEN [raised |-> "ZeroDivisionError"]
             ELSE [raised |-> "none",
                   counts |-> [b \in 0..(clamped - 1) |->
                       Cardinality({i \in 1..Len(data) :
                           bin_index(data[i], min_v, max_v, clamped) = b})]]

\* Visualizer.save_comments_trend up to plt.savefig: the exception it raises,
\* or the bar heights it draws
save_comments_trend(data, steps) ==
    IF Len(data) = 0 \/ steps <= 0
    THEN [raised |-> "Exception"]
    ELSE LET min_v == rat_min(data)
             max_v == rat_max(data)
         IN  IF ~rat_less(min_v, max_v)
             THEN [raised |-> "ZeroDivisionError"]
             ELSE IF steps - 1 = 0
             THEN [raised |-> "ZeroDivisionError"]
             ELSE [raised |-> "none",
                   counts |-> [b \in 0..(steps - 1) |->
                       Cardinality({i \in 1..Len(data) :
                           bin_index(data[i], min_v, max_v, steps) = b})]]

\* sorted(data, key=lambda t: t.score): stable insertion of t into a sorted list
RECURSIVE insert_by_score(_, _)
insert_by_score(sorted, t) ==
    IF sorted = <<>>
    THEN <<t>>
    ELSE IF sorted[Len(sorted)].score <= t.score
    THEN Append(sorted, t)
    ELSE Append(insert_by_score(SubSeq(sorted, 1, Len(sorted) - 1), t),
                sorted[Len(sorted)])

RECURSIVE sorted_by_score(_)
sorted_by_score(data) ==
    IF data = <<>>
    THEN <<>>
    ELSE insert_by_score(sorted_by_score(SubSeq(data, 1, Len(data) - 1)),
                         data[Len(data)])

\* Visualizer.save_tokens_trend up to plt.savefig
save_tokens_trend(data, dict) ==
    IF Len(data) = 0
    THEN [raised |-> "Exception"]
    ELSE IF Len(data) - 1 = 0
    THEN [raised |-> "ZeroDivisionError"]
    ELSE LET sorted == sorted_by_score(data)
         IN  [raised |-> "none",
              points |-> [i \in 1..Len(sorted) |->
                  [x |-> sorted[i].score,
                   y |-> sorted[i].count,
                   label |-> get_lem_token(dict, sorted[i].token, s_negative)]]]

\* the rows CSVDumper.dump_comments_trend writes
comments_rows(data) ==
    <<<<"comment", "score">>>>
        \o [i \in 1..Len(data) |-> <<data[i].comment.origin_text, data[i].score>>]

\* the rows CSVDumper.dump_tokens_trend writes
tokens_rows(data, dict) ==
    <<<<"stem_token", "lem_token", "appear_count", "score">>>>
        \o [i \in 1..Len(data) |->
               <<data[i].token, get_lem_token(dict, data[i].token, s_negative),
                 data[i].count, data[i].score>>]

\* Path(...).parent.mkdir(parents=True, exist_ok=True), then the file
written(dir, file, content) ==
    <<[op |-> "mkdir", path |-> dir],
      [op |-> "write", path |-> file, content |-> content]>>

(***************************************************************************)
(* main.py: Spec is one run of main().                                     *)
(***************************************************************************)
\* a plausible bug: a record without its fields is skipped
read_record_skipping(result, comment) ==
    IF "text" \notin DOMAIN comment \/ "timestamp" \notin DOMAIN comment
    THEN [raised |-> "none", result |-> result]
    ELSE [raised |-> "none",
          result |-> Append(result,
                            FilterSentences(comment.text, comment.timestamp))]

\* a plausible bug: the new record is put in front of the list
read_record_prepending(result, comment) ==
    IF "text" \notin DOMAIN comment \/ "timestamp" \notin DOMAIN comment
    THEN [raised |-> "KeyError", result |-> result]
    ELSE [raised |-> "none",
          result |-> <<FilterSentences(comment.text, comment.timestamp)>>
                         \o result]

\* lines 99-102 of get_filter_sentences on the record read_next returned
read_record(result, comment) ==
    IF "text" \notin DOMAIN comment \/ "timestamp" \notin DOMAIN comment
    THEN [raised |-> "KeyError", result |-> result]
    ELSE [raised |-> "none",
          result |-> Append(result,
                            FilterSentences(comment.text, comment.timestamp))]

MainTexts == {TextA, TextC, <<>>}

Records ==
    {[text |-> t, timestamp |-> Timestamp] : t \in MainTexts}
        \cup {[text |-> TextC], [timestamp |-> Timestamp]}

Chunks == {0, 1, 2, 20}

\* the state when main() has parsed its arguments and get_filter_sentences
\* has constructed its IngestReader
Init ==
    /\ comments \in UNION {[1..n -> Records] : n \in 0..MaxRecords}
    /\ pointer = 0
    /\ sentences = <<>>
    /\ mapping = EmptyDict
    /\ comment_scores = <<>>
    /\ top_tokens = <<>>
    /\ token_scores = <<>>
    /\ pc = "get_filter_sentences"
    /\ \E chunks \in Chunks, percent \in {[num |-> 1, den |-> 2], [num |-> 1, den |-> 1]} :
           config = [visual_comments_chunks |-> chunks,
                     visual_tokens_percent |-> percent]
    /\ outputs = <<>>
    /\ exception = "none"
    /\ analyzer \in {LexVader, LexStrong}
    /\ call = NoCall
    /\ ret = Pending

\* get_filter_sentences: one iteration of `while True` that reads a record
ReadRecord ==
    /\ pc = "get_filter_sentences"
    /\ pointer < Len(comments)
    /\ pointer' = pointer + 1
    /\ LET after == read_record(sentences, comments[pointer + 1])
       IN  /\ sentences' = after.result
           /\ exception' = after.raised
           /\ pc' = IF after.raised = "none" THEN "get_filter_sentences" ELSE "error"
    /\ UNCHANGED <<comments, mapping, comment_scores, top_tokens, token_scores,
                   config, outputs, analyzer, call, ret>>

\* get_filter_sentences: read_next returns None, the loop breaks
ReadEnd ==
    /\ pc = "get_filter_sentences"
    /\ pointer >= Len(comments)
    /\ pc' = "clean"
    /\ UNCHANGED <<comments, pointer, sentences, mapping, comment_scores,
                   top_tokens, token_scores, config, outputs, exception,
                   analyzer, call, ret>>

\* process_filter_sentences, line 124
CleanAll ==
    /\ pc = "clean"
    /\ sentences' = [i \in 1..Len(sentences) |-> clean(sentences[i])]
    /\ pc' = "compact"
    /\ UNCHANGED <<comments, pointer, mapping, comment_scores, top_tokens,
                   token_scores, config, outputs, exception, analyzer, call, ret>>

\* process_filter_sentences, line 125
CompactAll ==
    /\ pc = "compact"
    /\ sentences' = [i \in 1..Len(sentences) |-> compact_sentences(sentences[i])]
    /\ pc' = "build_mapping"
    /\ UNCHANGED <<comments, pointer, mapping, comment_scores, top_tokens,
                   token_scores, config, outputs, exception, analyzer, call, ret>>

\* process_filter_sentences, line 126
BuildMapping ==
    /\ pc = "build_mapping"
    /\ mapping' = build_mapping(EmptyDict, sentences)
    /\ pc' = "comment_scores"
    /\ UNCHANGED <<comments, pointer, sentences, comment_scores, top_tokens,
                   token_scores, config, outputs, exception, analyzer, call, ret>>

\* analysis_filter_sentences, line 152
ScoreComments ==
    /\ pc = "comment_scores"
    /\ comment_scores' =
           [i \in 1..Len(sentences) |-> CommentWithScore(sentences[i], TRUE)]
    /\ pc' = "top_tokens"
    /\ UNCHANGED <<comments, pointer, sentences, mapping, top_tokens,
                   token_scores, config, outputs, exception, analyzer, call, ret>>

\* analysis_filter_sentences, line 153
TopTokens ==
    /\ pc = "top_tokens"
    /\ top_tokens' = get_top_stem_tokens(sentences, config.visual_tokens_percent)
    /\ pc' = "token_scores"
    /\ UNCHANGED <<comments, pointer, sentences, mapping, comment_scores,
                   token_scores, config, outputs, exception, analyzer, call, ret>>

\* analysis_filter_sentences, line 154
ScoreTokens ==
    /\ pc = "token_scores"
    /\ token_scores' = get_token_score(top_tokens, mapping)
    /\ pc' = "save_comments_trend"
    /\ UNCHANGED <<comments, pointer, sentences, mapping, comment_scores,
                   top_tokens, config, outputs, exception, analyzer, call, ret>>

\* visual_analysis_results: Visualizer.save_comments_trend
SaveCommentsTrend ==
    /\ pc = "save_comments_trend"
    /\ LET chart == save_comments_trend(
                        [i \in 1..Len(comment_scores) |-> comment_scores[i].score],
                        config.visual_comments_chunks)
       IN  /\ exception' = chart.raised
           /\ IF chart.raised = "none"
              THEN /\ outputs' = outputs \o written("output_plot_dir",
                                     "comments_sentiment_trend.png", chart.counts)
                   /\ pc' = "save_tokens_trend"
              ELSE /\ outputs' = outputs
                   /\ pc' = "error"
    /\ UNCHANGED <<comments, pointer, sentences, mapping, comment_scores,
                   top_tokens, token_scores, config, analyzer, call, ret>>

\* visual_analysis_results: Visualizer.save_tokens_trend
SaveTokensTrend ==
    /\ pc = "save_tokens_trend"
    /\ LET chart == save_tokens_trend(token_scores, mapping)
       IN  /\ exception' = chart.raised
           /\ IF chart.raised = "none"
              THEN /\ outputs' = outputs \o written("output_plot_dir",
                                     "tokens_sentiment_trend.png", chart.points)
                   /\ pc' = "dump_comments_trend"
              ELSE /\ outputs' = outputs
                   /\ pc' = "error"
    /\ UNCHANGED <<comments, pointer, sentences, mapping, comment_scores,
                   top_tokens, token_scores, config, analyzer, call, ret>>

\* dump_csv_file: CSVDumper.dump_comments_trend
DumpCommentsTrend ==
    /\ pc = "dump_comments_trend"
    /\ outputs' = outputs \o written("output_csv_dir",
                      "comments_sentiment_trend.csv", comments_rows(comment_scores))
    /\ pc' = "dump_tokens_trend"
    /\ UNCHANGED <<comments, pointer, sentences, mapping, comment_scores,
                   top_tokens, token_scores, config, exception, analyzer,
                   call, ret>>

\* dump_csv_file: CSVDumper.dump_tokens_trend, then print_exit_message
DumpTokensTrend ==
    /\ pc = "dump_tokens_trend"
    /\ outputs' = outputs \o written("output_csv_dir",
                      "tokens_sentiment_trend.csv",
                      tokens_rows(token_scores, mapping))
    /\ pc' = "done"
    /\ UNCHANGED <<comments, pointer, sentences, mapping, comment_scores,
                   top_tokens, token_scores, config, exception, analyzer,
                   call, ret>>

Next ==
    \/ ReadRecord
    \/ ReadEnd
    \/ CleanAll
    \/ CompactAll
    \/ BuildMapping
    \/ ScoreComments
    \/ TopTokens
    \/ ScoreTokens
    \/ SaveCommentsTrend
    \/ SaveTokensTrend
    \/ DumpCommentsTrend
    \/ DumpTokensTrend

Spec == Init /\ [][Next]_vars

\* the record has the two fields get_filter_sentences reads
WellFormed(comment) == "text" \in DOMAIN comment /\ "timestamp" \in DOMAIN comment

Malformed == {i \in 1..Len(comments) : ~WellFormed(comments[i])}

FirstMalformed == CHOOSE i \in Malformed : \A j \in Malformed : i <= j

\* C10: if a record lacks the text or the timestamp field, main stops with an
\* error at that record: no FilterSentences is created for it, no later
\* record is read, and nothing is cleaned, compacted, scored, charted or
\* dumped for any record.
MalformedIsFatal ==
    Malformed # {} =>
        /\ pointer <= FirstMalformed
        /\ pc \in {"get_filter_sentences", "error"}
        /\ (pointer = FirstMalformed) <=> (pc = "error")
        /\ pc = "error" => exception = "KeyError"
        /\ Len(sentences) = IF pc = "error" THEN pointer - 1 ELSE pointer
        /\ \A i \in 1..Len(sentences) :
               sentences[i] = FilterSentences(comments[i].text, comments[i].timestamp)
        /\ mapping = EmptyDict
        /\ comment_scores = <<>>
        /\ top_tokens = <<>>
        /\ token_scores = <<>>
        /\ outputs = <<>>

\* C10 witness: main has stopped at a second record that has a text but no
\* timestamp, after a first record with a stop word and before a third record
MalformedIsFatalReached ==
    /\ pc = "error"
    /\ exception = "KeyError"
    /\ Len(comments) = 3
    /\ pointer = 2
    /\ comments[1] = [text |-> TextC, timestamp |-> Timestamp]
    /\ comments[2] = [text |-> TextC]
    /\ WellFormed(comments[3])
    /\ Len(sentences) = 1

(***************************************************************************)
(* SpecRender: one caller of Visualizer with its arguments.                *)
(***************************************************************************)
ScoreValues ==
    {rat(-500000), rat(0), [num |-> 440400, den |-> 3], rat(440400)}

ScoreLists == UNION {[1..n -> ScoreValues] : n \in 0..MaxScores}

StepCounts == (-1)..MaxSteps

RenderTokens ==
    {TokenWithScore(t, 1, s) :
        t \in {s_good, NEG_PREFIX \o s_good, s_run}, s \in {-325896, 440400}}

RenderTokenLists == UNION {[1..n -> RenderTokens] : n \in 0..MaxToks}

InitRender ==
    /\ IdleMain
    /\ mapping = build_mapping(EmptyDict, <<Processed(TextA), Processed(TextC)>>)
    /\ analyzer = LexVader
    /\ \/ \E data \in ScoreLists, steps \in StepCounts :
              call = [op |-> "save_comments_trend", data |-> data, steps |-> steps]
       \/ \E data \in RenderTokenLists :
              call = [op |-> "save_tokens_trend", data |-> data]
    /\ ret = Pending

\* Visualizer.save_comments_trend(data, output_path, steps)
CallSaveCommentsTrend ==
    /\ call.op = "save_comments_trend"
    /\ ~ret.done
    /\ LET chart == save_comments_trend(call.data, call.steps)
       IN  /\ exception' = chart.raised
           /\ outputs' = IF chart.raised = "none"
                         THEN outputs \o written("output_plot_dir",
                                  "comments_sentiment_trend.png", chart.counts)
                         ELSE outputs
           /\ ret' = [done |-> TRUE, result |-> chart]
    /\ UNCHANGED <<comments, pointer, sentences, mapping, comment_scores,
                   top_tokens, token_scores, pc, config, analyzer, call>>

\* Visualizer.save_tokens_trend(data, mapping, output_path)
CallSaveTokensTrend ==
    /\ call.op = "save_tokens_trend"
    /\ ~ret.done
    /\ LET chart == save_tokens_trend(call.data, mapping)
       IN  /\ exception' = chart.raised
           /\ outputs' = IF chart.raised = "none"
                         THEN outputs \o written("output_plot_dir",
                                  "tokens_sentiment_trend.png", chart.points)
                         ELSE outputs
           /\ ret' = [done |-> TRUE, result |-> chart]
    /\ UNCHANGED <<comments, pointer, sentences, mapping, comment_scores,
                   top_tokens, token_scores, pc, config, analyzer, call>>

NextRender == CallSaveCommentsTrend \/ CallSaveTokensTrend

SpecRender == InitRender /\ [][NextRender]_vars

\* the arguments the guards of lines 32 and 85 of visualise.py refuse
InvalidRenderInput ==
    \/ /\ call.op = "save_comments_trend"
       /\ (Len(call.data) = 0 \/ call.steps <= 0)
    \/ /\ call.op = "save_tokens_trend"
       /\ Len(call.data) = 0

\* C11: save_comments_trend called with an empty score list or with
\* steps <= 0, and save_tokens_trend called with an empty token list, end by
\* raising Exception, and when they have ended no directory was created and
\* no file was written: the step count is not replaced by a valid one.
RenderFailsFast ==
    (InvalidRenderInput /\ ret.done) =>
        /\ exception = "Exception"
        /\ ret.result.raised = "Exception"
        /\ outputs = <<>>

\* C11 witness: save_comments_trend has raised on two different scores and
\* a step count of zero
RenderFailsFastReached ==
    /\ call.op = "save_comments_trend"
    /\ ret.done
    /\ call.steps = 0
    /\ Len(call.data) = 2
    /\ call.data[1] # call.data[2]
    /\ exception = "Exception"
    /\ outputs = <<>>

(***************************************************************************)
(* StopWordCleanner.clean applied again, under SpecRecord.                 *)
(***************************************************************************)
\* C12: the record a clean call leaves is a fixed point of clean: cleaning
\* it again gives the same stem_tokens and lem_tokens (and the same record),
\* and a clean call on a record that was only cleaned so far changes nothing.
CleanIdempotent ==
    [][CleanRecord =>
          /\ clean(sentences'[1]).stem_tokens = sentences'[1].stem_tokens
          /\ clean(sentences'[1]).lem_tokens = sentences'[1].lem_tokens
          /\ clean(sentences'[1]) = sentences'[1]
          /\ (call.cleaned /\ call.compactions = 0) => sentences' = sentences]_vars

\* C12 witness: a cleaned, never compacted record of one sentence that holds
\* two placeholders and a token that is no stop word
CleanIdempotentReached ==
    /\ call.op = "record"
    /\ call.cleaned
    /\ call.compactions = 0
    /\ sentences[1].word_tokens = <<<<s_the, s_the, s_good>>>>
    /\ sentences[1].stem_tokens = <<<<EmptyStr, EmptyStr, s_good>>>>
    /\ sentences[1].lem_tokens = <<<<EmptyStr, EmptyStr, s_good>>>>

(***************************************************************************)
(* The order of the records through main, under Spec.                      *)
(***************************************************************************)
\* the steps of main in the order it takes them
Stages ==
    <<"get_filter_sentences", "clean", "compact", "build_mapping",
      "comment_scores", "top_tokens", "token_scores", "save_comments_trend",
      "save_tokens_trend", "dump_comments_trend", "dump_tokens_trend", "done">>

StageIndex(stage) == CHOOSE k \in 1..Len(Stages) : Stages[k] = stage

\* main is at `stage` or past it (an error of a chart is past the scoring)
Past(stage) ==
    IF pc = "error"
    THEN /\ exception # "KeyError"
         /\ StageIndex(stage) <= StageIndex("save_comments_trend")
    ELSE StageIndex(pc) >= StageIndex(stage)

\* the comment CSV among the files written so far
CommentCsv ==
    {k \in 1..Len(outputs) :
        /\ outputs[k].op = "write"
        /\ outputs[k].path = "comments_sentiment_trend.csv"}

StagesWriteOwnViews ==
    [][/\ pc = "clean" =>
              /\ Len(sentences') = Len(sentences)
              /\ \A i \in 1..Len(sentences) :
                     sentences'[i] =
                         [sentences[i] EXCEPT
                             !.stem_tokens = sentences'[i].stem_tokens,
                             !.lem_tokens = sentences'[i].lem_tokens]
       /\ pc = "compact" =>
              /\ Len(sentences') = Len(sentences)
              /\ \A i \in 1..Len(sentences) :
                     sentences'[i] =
                         [sentences[i] EXCEPT
                             !.stem_tokens = sentences'[i].stem_tokens]
       /\ pc = "build_mapping" =>
              /\ sentences' = sentences
              /\ Len(sentences) = Len(comments)
              /\ \A i \in 1..Len(sentences) :
                     sentences[i] =
                         compact_sentences(clean(
                             FilterSentences(comments[i].text,
                                             comments[i].timestamp)))
       /\ mapping' # mapping => pc = "build_mapping"
       /\ pc' = "build_mapping" => pc = "compact"
       /\ Past("comment_scores") =>
              /\ sentences' = sentences
              /\ mapping' = mapping]_vars

\* C14 witness: main is done; the first record's stem view was changed by
\* both steps and its lemma view by the clean step only, and the mapping
\* was built from it
StagesWriteOwnViewsReached ==
    /\ pc = "done"
    /\ comments[1].text = TextC
    /\ sentences[1].word_tokens = <<<<w_Not, s_the, s_good>>>>
    /\ sentences[1].lem_tokens = <<<<s_not, EmptyStr, s_good>>>>
    /\ sentences[1].stem_tokens =
           <<<<s_not, NEG_PREFIX, NEG_PREFIX \o s_good>>>>
    /\ check_stem_token(mapping, NEG_PREFIX \o s_good)

(***************************************************************************)
(* Placeholders and the token counts, under Spec.                          *)
(***************************************************************************)
\* the positions <<record, sentence, word>> of the corpus
Positions ==
    UNION {UNION {{<<c, i, j>> : j \in 1..Len(sentences[c].stem_tokens[i])} :
                     i \in 1..Len(sentences[c].stem_tokens)} :
              c \in 1..Len(sentences)}

\* the positions whose stem the clean step replaced by the placeholder
Blanked ==
    {p \in Positions :
        LET r == sentences[p[1]]
        IN  clean(FilterSentences(r.origin_text, r.timestamp))
                .stem_tokens[p[2]][p[3]] = EmptyStr}

\* the positions that are no placeholder and hold `token` in the stem view
CountedPositions(token) ==
    {p \in Positions \ Blanked :
        sentences[p[1]].stem_tokens[p[2]][p[3]] = token}

\* the distinct tokens of the positions that are no placeholder
CountedTokens ==
    {sentences[p[1]].stem_tokens[p[2]][p[3]] : p \in Positions \ Blanked}

\* C15: once get_top_stem_tokens has returned, every returned token occurs
\* at a position that is no placeholder, its count is the number of such
\* positions, and the number of returned tokens is the top-percent cut of
\* the distinct tokens of such positions: a placeholder adds to none of
\* them, inside a negation window or not.
PlaceholdersNotCounted ==
    Past("token_scores") =>
        /\ \A k \in 1..Len(top_tokens) :
               /\ CountedPositions(top_tokens[k].token) # {}
               /\ top_tokens[k].count =
                      Cardinality(CountedPositions(top_tokens[k].token))
        /\ Len(top_tokens) =
               int_times(Cardinality(CountedTokens), config.visual_tokens_percent)

(***************************************************************************)
(* Completion of main, under Spec.                                         *)
(***************************************************************************)
\* counts[0] + ... + counts[n - 1]
RECURSIVE SumCounts(_, _)
SumCounts(counts, n) ==
    IF n = 0 THEN 0 ELSE counts[n - 1] + SumCounts(counts, n - 1)

\* the files written so far, in the order of writing
FilesWritten ==
    LET writes == SelectSeq(outputs, LAMBDA o : o.op = "write")
    IN  [k \in 1..Len(writes) |-> writes[k].path]

\* the input is a corpus of at least one record, all of them well-formed,
\* with a chunk count of at least one, and its scoring kept a token
ValidInput ==
    /\ Len(comments) >= 1
    /\ Malformed = {}
    /\ config.visual_comments_chunks >= 1
    /\ Past("save_comments_trend")
    /\ Len(token_scores) >= 1

\* C16: on a valid input main raises no error; the files it has written are
\* an initial part of comment chart, token chart, comment CSV, token CSV,
\* all four when it is done; and the bars of the comment chart are `steps`
\* bins whose counts add up to the number of scores.
CompletesOnValidInput ==
    ValidInput =>
        /\ pc # "error"
        /\ exception = "none"
        /\ \E n \in 0..4 :
               FilesWritten =
                   SubSeq(<<"comments_sentiment_trend.png",
                            "tokens_sentiment_trend.png",
                            "comments_sentiment_trend.csv",
                            "tokens_sentiment_trend.csv">>, 1, n)
        /\ pc = "done" => Len(FilesWritten) = 4
        /\ \A k \in 1..Len(outputs) :
               (outputs[k].op = "write"
                   /\ outputs[k].path = "comments_sentiment_trend.png") =>
                   /\ DOMAIN outputs[k].content =
                          0..(config.visual_comments_chunks - 1)
                   /\ \A b \in DOMAIN outputs[k].content :
                          outputs[k].content[b] \in 0..Len(comment_scores)
                   /\ SumCounts(outputs[k].content,
                                config.visual_comments_chunks)
                          = Len(comment_scores)

====
